---- MODULE Spec2Model ----
(***************************************************************************)
(* Department-level commune boundary cache of the climate projections API  *)
(* (api/services/boundary_service.py).                                     *)
(*                                                                         *)
(* get_commune_boundary is a coroutine of the single asyncio event loop;   *)
(* _load_department_sync runs on a worker thread (asyncio.to_thread) and   *)
(* writes the two module globals while the event loop keeps serving other  *)
(* coroutines.  Strings are sequences of one-character strings so that     *)
(* startswith and slicing are computed, not assumed.                       *)
(***************************************************************************)
EXTENDS Integers, Sequences, FiniteSets, TLC

\* ------------------------------------------------------------- bounds ----
\* number of get_commune_boundary calls made during a run
MaxCalls == 2
\* longest identifier fed to the department derivation on its own
MaxIdLen == 5

Calls == 1..MaxCalls

\* -------------------------------------------------- Python primitives ----
\* Values are records tagged by type, so that None, an exception and a
\* feature can be told apart.
None == [type |-> "None"]
Raised == [type |-> "Raised"]
NotCalled == [type |-> "NotCalled"]
Exception(class) == [type |-> "Exception", class |-> class]
Polygon(name) == [type |-> "Polygon", of |-> name]

\* str.startswith(prefix)
StartsWith(s, prefix) ==
    /\ Len(s) >= Len(prefix)
    /\ SubSeq(s, 1, Len(prefix)) = prefix

\* s[:n], which clamps to the length of s
Slice(s, n) == SubSeq(s, 1, IF Len(s) < n THEN Len(s) ELSE n)

\* row.get(key, default)
RowGet(row, key, default) == IF key \in DOMAIN row THEN row[key] ELSE default

\* dict.get(key) on the cache: the value or None
DictGet(d, key) == IF key \in DOMAIN d THEN d[key] ELSE None

\* d[key] = value
DictSet(d, key, value) ==
    [k \in (DOMAIN d) \cup {key} |-> IF k = key THEN value ELSE d[k]]

\* --------------------------------------------------- upstream dataset ----
\* What carti_download(values=[dept_code], borders="COMMUNE",
\* filter_by="DEPARTEMENT", year=2022) yields: the communes of the
\* department, none for a code that matches no department.
Dept92 == <<"9", "2">>
Dept974 == <<"9", "7", "4">>
Id92049 == <<"9", "2", "0", "4", "9">>
Id92050 == <<"9", "2", "0", "5", "0">>
Id92999 == <<"9", "2", "9", "9", "9">>
Id97400 == <<"9", "7", "4", "0", "0">>
\* too short for the prefix the derivation takes: the empty string the
\* geocoder puts for a missing citycode
IdEmpty == << >>

CartiDownload(dept_code) ==
    IF dept_code = Dept92
    THEN << [INSEE_COM |-> Id92049, NOM |-> "Montrouge", POPULATION |-> 48,
             geometry |-> Polygon("92049")],
            [INSEE_COM |-> Id92050, NOM |-> "Nanterre", POPULATION |-> 96,
             geometry |-> Polygon("92050")] >>
    ELSE IF dept_code = Dept974
    THEN << [INSEE_COM |-> Id97400, NOM |-> "Saint-Denis",
             geometry |-> Polygon("97400")] >>
    ELSE << >>

\* The frames one download can hand back: the dataset, or the dataset with
\* one row whose geometry is missing (malformed upstream data).
LoaderFrames(dept_code) ==
    LET good == CartiDownload(dept_code)
    IN  {good} \cup
        { [good EXCEPT ![k] = [good[k] EXCEPT !.geometry = None]] :
              k \in 1..Len(good) }

\* identifiers the callers ask for
CallIds == {Id92049, Id92050, Id92999, Id97400, IdEmpty}

\* exceptions the load can meet: the download failing, a row without geometry
DownloadErrors == {Exception("ConnectionError")}
RowError == Exception("AttributeError")

\* ---------------------------------------------------------- variables ----
VARIABLES
    boundary_cache,   \* _boundary_cache: INSEE code -> GeoJSON feature
    dept_loaded,      \* _dept_loaded: set of department codes
    loop,             \* the calls running on the event loop: none or one
    pc,               \* per call: position in get_commune_boundary
    missed,           \* per call: its cache check of line 86 missed
    insee,            \* per call: the argument
    dept_code,        \* per call: the derived department code
    result,           \* per call: the returned value, Raised for an exception
    t_pc,             \* per call: position of its worker thread
    t_gdf,            \* per call: the frame its download returned
    t_idx,            \* per call: the row its loop is at
    t_exc,            \* per call: exception leaving _load_department_sync
    t_failed,         \* per call: the load went through its except clause
    predecessors,     \* per call: the calls that had returned when it began
    stats,            \* the last value get_cache_stats returned
    req,              \* per call: position of the GET /climate request it serves
    api,              \* per call: what API Adresse answered that request
    steps,            \* per call: the steps that request has begun, in order
    response,         \* per call: what GET /climate answered
    arg,              \* what a function checked on its own is called with
    ret               \* what it gave, once called: << >> or << value >>

vars == << boundary_cache, dept_loaded, loop, pc, missed, insee, dept_code, result,
           t_pc, t_gdf, t_idx, t_exc, t_failed, predecessors, stats,
           req, api, steps, response, arg, ret >>

shared == << boundary_cache, dept_loaded >>
callVars == << loop, pc, missed, insee, dept_code, result, predecessors >>
threadVars == << t_pc, t_gdf, t_idx, t_exc, t_failed >>
deriveVars == << arg, ret >>
requestVars == << req, api, steps, response >>

\* ------------------------------------------------------ pure functions ----
\* variant: the overseas branch is missing
DeriveDeptCode_TwoChars(code) == Slice(code, 2)

\* variant: the Corsica branch takes three characters
DeriveDeptCode_CorsicaThree(code) ==
    IF StartsWith(code, <<"9", "7">>)
    THEN Slice(code, 3)
    ELSE IF StartsWith(code, <<"2", "A">>) \/ StartsWith(code, <<"2", "B">>)
    THEN Slice(code, 3)
    ELSE Slice(code, 2)

\* lines 92-100: the department code of an INSEE code
DeriveDeptCode(code) ==
    IF StartsWith(code, <<"9", "7">>)
    THEN Slice(code, 3)
    ELSE IF StartsWith(code, <<"2", "A">>) \/ StartsWith(code, <<"2", "B">>)
    THEN Slice(code, 2)
    ELSE Slice(code, 2)

\* lines 49-57: the GeoJSON feature of one row
Feature(row) ==
    [type |-> "Feature",
     properties |-> [INSEE_COM |-> row.INSEE_COM,
                     NOM_COM |-> RowGet(row, "NOM", ""),
                     POPULATION |-> RowGet(row, "POPULATION", 0)],
     geometry |-> row.geometry]

\* line 56: row['geometry'].__geo_interface__ raises on a missing geometry
RowRaises(row) == row.geometry = None

\* variant: the clause names the download's exception only
ExceptCatches_DownloadOnly(kind) == kind \in DownloadErrors

\* line 64: except Exception catches every exception the load can meet
ExceptCatches(kind) == TRUE

\* variant: the two counts are taken from the wrong collections
GetCacheStats_Swapped ==
    [cached_communes |-> Cardinality(dept_loaded),
     cached_departments |-> Cardinality(DOMAIN boundary_cache)]

\* lines 118-121
GetCacheStats ==
    [cached_communes |-> Cardinality(DOMAIN boundary_cache),
     cached_departments |-> Cardinality(dept_loaded)]

\* ------------------------------------------------------------ initial ----
Init ==
    /\ boundary_cache = << >>
    /\ dept_loaded = {}
    /\ loop = {}
    /\ pc = [g \in Calls |-> "idle"]
    /\ missed = [g \in Calls |-> FALSE]
    /\ insee = [g \in Calls |-> << >>]
    /\ dept_code = [g \in Calls |-> << >>]
    /\ result = [g \in Calls |-> NotCalled]
    /\ t_pc = [g \in Calls |-> "none"]
    /\ t_gdf = [g \in Calls |-> << >>]
    /\ t_idx = [g \in Calls |-> 0]
    /\ t_exc = [g \in Calls |-> None]
    /\ t_failed = [g \in Calls |-> FALSE]
    /\ predecessors = [g \in Calls |-> {}]
    /\ stats = NotCalled
    /\ req = [g \in Calls |-> "none"]
    /\ api = [g \in Calls |-> NotCalled]
    /\ steps = [g \in Calls |-> << >>]
    /\ response = [g \in Calls |-> NotCalled]
    /\ arg = << >>
    /\ ret = << >>

\* variant: the cache is not consulted on entry, every call goes on to the
\* department check
GetEnter_NoCacheCheck(g, id) ==
    /\ pc[g] = "idle"
    /\ loop = {}
    /\ \A h \in Calls : h < g => (pc[h] # "idle" \/ req[h] # "none")
    /\ insee' = [insee EXCEPT ![g] = id]
    /\ predecessors' = [predecessors EXCEPT ![g] = {h \in Calls : pc[h] = "done"}]
    /\ pc' = [pc EXCEPT ![g] = "miss"]
    /\ missed' = [missed EXCEPT ![g] = TRUE]
    /\ loop' = {g}
    /\ UNCHANGED << result, shared, dept_code, threadVars, stats, deriveVars >>

\* ---------------------------------------------- get_commune_boundary ----
\* lines 70-87: a request enters on the free event loop and checks the cache.
\* Calls are numbered in the order they begin.
GetEnter(g, id) ==
    /\ pc[g] = "idle"
    /\ loop = {}
    /\ \A h \in Calls : h < g => (pc[h] # "idle" \/ req[h] # "none")
    /\ insee' = [insee EXCEPT ![g] = id]
    /\ predecessors' = [predecessors EXCEPT ![g] = {h \in Calls : pc[h] = "done"}]
    /\ IF id \in DOMAIN boundary_cache
       THEN /\ result' = [result EXCEPT ![g] = boundary_cache[id]]
            /\ pc' = [pc EXCEPT ![g] = "done"]
            /\ loop' = {}
            /\ UNCHANGED missed
       ELSE /\ pc' = [pc EXCEPT ![g] = "miss"]
            /\ missed' = [missed EXCEPT ![g] = TRUE]
            /\ loop' = {g}
            /\ UNCHANGED result
    /\ UNCHANGED << shared, dept_code, threadVars, stats, deriveVars >>

\* variant: no load is started for a department another call is loading
GetDispatch_JoinsInFlight(g) ==
    /\ pc[g] = "miss"
    /\ loop = {g}
    /\ LET d == DeriveDeptCode(insee[g])
           in_flight == \E h \in Calls : /\ t_pc[h] \in {"download", "iter"}
                                         /\ dept_code[h] = d
       IN  /\ dept_code' = [dept_code EXCEPT ![g] = d]
           /\ IF d \notin dept_loaded /\ ~in_flight
              THEN /\ t_pc' = [t_pc EXCEPT ![g] = "download"]
                   /\ pc' = [pc EXCEPT ![g] = "await"]
                   /\ loop' = {}
              ELSE /\ pc' = [pc EXCEPT ![g] = "final"]
                   /\ UNCHANGED << t_pc, loop >>
    /\ UNCHANGED << shared, missed, insee, result, predecessors, t_gdf, t_idx,
                    t_exc, t_failed, stats, deriveVars, requestVars >>

\* variant: the load is started without looking at _dept_loaded
GetDispatch_AlwaysLoads(g) ==
    /\ pc[g] = "miss"
    /\ loop = {g}
    /\ dept_code' = [dept_code EXCEPT ![g] = DeriveDeptCode(insee[g])]
    /\ t_pc' = [t_pc EXCEPT ![g] = "download"]
    /\ pc' = [pc EXCEPT ![g] = "await"]
    /\ loop' = {}
    /\ UNCHANGED << shared, missed, insee, result, predecessors, t_gdf, t_idx,
                    t_exc, t_failed, stats, deriveVars, requestVars >>

\* variant: the load is called on the event loop itself, which stays taken
\* until the load is over
GetDispatch_Blocking(g) ==
    /\ pc[g] = "miss"
    /\ loop = {g}
    /\ LET d == DeriveDeptCode(insee[g])
       IN  /\ dept_code' = [dept_code EXCEPT ![g] = d]
           /\ IF d \notin dept_loaded
              THEN /\ t_pc' = [t_pc EXCEPT ![g] = "download"]
                   /\ pc' = [pc EXCEPT ![g] = "await"]
              ELSE /\ pc' = [pc EXCEPT ![g] = "final"]
                   /\ UNCHANGED t_pc
    /\ UNCHANGED << shared, loop, missed, insee, result, predecessors, t_gdf,
                    t_idx, t_exc, t_failed, stats, deriveVars, requestVars >>

\* lines 92-105: derive the department, hand the load to a worker thread and
\* give the event loop back unless the department is already loaded
GetDispatch(g) ==
    /\ pc[g] = "miss"
    /\ loop = {g}
    /\ LET d == DeriveDeptCode(insee[g])
       IN  /\ dept_code' = [dept_code EXCEPT ![g] = d]
           /\ IF d \notin dept_loaded
              THEN /\ t_pc' = [t_pc EXCEPT ![g] = "download"]
                   /\ pc' = [pc EXCEPT ![g] = "await"]
                   /\ loop' = {}
              ELSE /\ pc' = [pc EXCEPT ![g] = "final"]
                   /\ UNCHANGED << t_pc, loop >>
    /\ UNCHANGED << shared, missed, insee, result, predecessors, t_gdf, t_idx,
                    t_exc, t_failed, stats, deriveVars, requestVars >>

\* variant: a call whose load failed starts the load again instead of
\* reading the cache
GetReturn_Retries(g) ==
    /\ \/ pc[g] = "final" /\ loop = {g}
       \/ pc[g] = "await" /\ t_pc[g] = "done" /\ loop = {}
    /\ IF pc[g] = "await" /\ t_failed[g]
       THEN /\ t_pc' = [t_pc EXCEPT ![g] = "download"]
            /\ t_failed' = [t_failed EXCEPT ![g] = FALSE]
            /\ UNCHANGED << result, pc, loop, t_gdf, t_idx, t_exc >>
       ELSE /\ result' = [result EXCEPT ![g] =
                             IF t_exc[g] # None THEN Raised
                             ELSE DictGet(boundary_cache, insee[g])]
            /\ pc' = [pc EXCEPT ![g] = "done"]
            /\ loop' = {}
            /\ UNCHANGED threadVars
    /\ UNCHANGED << shared, missed, insee, dept_code, predecessors, stats,
                    deriveVars >>

\* variant: the final read is a setdefault, a missing code is cached as None
GetReturn_SetDefault(g) ==
    /\ \/ pc[g] = "final" /\ loop = {g}
       \/ pc[g] = "await" /\ t_pc[g] = "done" /\ loop = {}
    /\ result' = [result EXCEPT ![g] =
                     IF t_exc[g] # None THEN Raised
                     ELSE DictGet(boundary_cache, insee[g])]
    /\ boundary_cache' =
           IF t_exc[g] = None /\ insee[g] \notin DOMAIN boundary_cache
           THEN DictSet(boundary_cache, insee[g], None)
           ELSE boundary_cache
    /\ pc' = [pc EXCEPT ![g] = "done"]
    /\ loop' = {}
    /\ UNCHANGED << dept_loaded, missed, insee, dept_code, predecessors,
                    threadVars, stats, deriveVars >>

\* variant: the final read subscripts the cache, a missing key raises
GetReturn_Subscript(g) ==
    /\ \/ pc[g] = "final" /\ loop = {g}
       \/ pc[g] = "await" /\ t_pc[g] = "done" /\ loop = {}
    /\ result' = [result EXCEPT ![g] =
                     IF t_exc[g] # None \/ insee[g] \notin DOMAIN boundary_cache
                     THEN Raised
                     ELSE boundary_cache[insee[g]]]
    /\ pc' = [pc EXCEPT ![g] = "done"]
    /\ loop' = {}
    /\ UNCHANGED << shared, missed, insee, dept_code, predecessors, threadVars,
                    stats, deriveVars >>

\* lines 105-108: the await ends (an exception of the thread would come out
\* of it), then the final cache read
GetReturn(g) ==
    /\ \/ pc[g] = "final" /\ loop = {g}
       \/ pc[g] = "await" /\ t_pc[g] = "done" /\ loop = {}
    /\ result' = [result EXCEPT ![g] =
                     IF t_exc[g] # None THEN Raised
                     ELSE DictGet(boundary_cache, insee[g])]
    /\ pc' = [pc EXCEPT ![g] = "done"]
    /\ loop' = {}
    /\ UNCHANGED << shared, missed, insee, dept_code, predecessors, threadVars,
                    stats, deriveVars >>

\* ---------------------------------------------- _load_department_sync ----
\* variant: the except clause removes the rows the load had inserted
HandleException_Rollback(g, kind) ==
    /\ t_pc' = [t_pc EXCEPT ![g] = "done"]
    /\ t_failed' = [t_failed EXCEPT ![g] = TRUE]
    /\ t_exc' = [t_exc EXCEPT ![g] = IF ExceptCatches(kind) THEN None ELSE kind]
    /\ t_gdf' = [t_gdf EXCEPT ![g] = << >>]
    /\ t_idx' = [t_idx EXCEPT ![g] = 0]
    /\ LET inserted == { t_gdf[g][k].INSEE_COM : k \in 1..(t_idx[g] - 1) }
       IN  boundary_cache' =
               [k \in (DOMAIN boundary_cache) \ inserted |-> boundary_cache[k]]
    /\ UNCHANGED dept_loaded

\* variant: the department is marked in the except clause too
HandleException_MarksLoaded(g, kind) ==
    /\ t_pc' = [t_pc EXCEPT ![g] = "done"]
    /\ t_failed' = [t_failed EXCEPT ![g] = TRUE]
    /\ t_exc' = [t_exc EXCEPT ![g] = IF ExceptCatches(kind) THEN None ELSE kind]
    /\ t_gdf' = [t_gdf EXCEPT ![g] = << >>]
    /\ t_idx' = [t_idx EXCEPT ![g] = 0]
    /\ dept_loaded' = dept_loaded \cup {dept_code[g]}
    /\ UNCHANGED boundary_cache

\* lines 64-67: the except clause; nothing is undone, nothing is marked
HandleException(g, kind) ==
    /\ t_pc' = [t_pc EXCEPT ![g] = "done"]
    /\ t_failed' = [t_failed EXCEPT ![g] = TRUE]
    /\ t_exc' = [t_exc EXCEPT ![g] = IF ExceptCatches(kind) THEN None ELSE kind]
    /\ t_gdf' = [t_gdf EXCEPT ![g] = << >>]
    /\ t_idx' = [t_idx EXCEPT ![g] = 0]
    /\ UNCHANGED shared

\* variant: the department is marked before its rows are cached
Download_MarksEarly(g) ==
    /\ t_pc[g] = "download"
    /\ \/ \E kind \in DownloadErrors : HandleException(g, kind)
       \/ \E gdf \in LoaderFrames(dept_code[g]) :
              /\ t_gdf' = [t_gdf EXCEPT ![g] = gdf]
              /\ t_idx' = [t_idx EXCEPT ![g] = 1]
              /\ t_pc' = [t_pc EXCEPT ![g] = "iter"]
              /\ dept_loaded' = dept_loaded \cup {dept_code[g]}
              /\ UNCHANGED << boundary_cache, t_exc, t_failed >>
    /\ UNCHANGED << callVars, stats, deriveVars, requestVars >>

\* lines 34-42: the download raises or returns a frame
Download(g) ==
    /\ t_pc[g] = "download"
    /\ \/ \E kind \in DownloadErrors : HandleException(g, kind)
       \/ \E gdf \in LoaderFrames(dept_code[g]) :
              /\ t_gdf' = [t_gdf EXCEPT ![g] = gdf]
              /\ t_idx' = [t_idx EXCEPT ![g] = 1]
              /\ t_pc' = [t_pc EXCEPT ![g] = "iter"]
              /\ UNCHANGED << shared, t_exc, t_failed >>
    /\ UNCHANGED << callVars, stats, deriveVars, requestVars >>

\* variant: every row is cached under the code the caller asked for
LoadRow_KeyedByQuery(g) ==
    /\ t_pc[g] = "iter"
    /\ t_idx[g] <= Len(t_gdf[g])
    /\ LET row == t_gdf[g][t_idx[g]]
       IN  IF RowRaises(row)
           THEN HandleException(g, RowError)
           ELSE /\ boundary_cache' =
                       DictSet(boundary_cache, insee[g], Feature(row))
                /\ t_idx' = [t_idx EXCEPT ![g] = @ + 1]
                /\ UNCHANGED << dept_loaded, t_pc, t_gdf, t_exc, t_failed >>
    /\ UNCHANGED << callVars, stats, deriveVars, requestVars >>

\* variant: a row whose code is already cached adds its population to the
\* cached feature instead of replacing it
LoadRow_Accumulates(g) ==
    /\ t_pc[g] = "iter"
    /\ t_idx[g] <= Len(t_gdf[g])
    /\ LET row == t_gdf[g][t_idx[g]]
           new == Feature(row)
           old == DictGet(boundary_cache, row.INSEE_COM)
       IN  IF RowRaises(row)
           THEN HandleException(g, RowError)
           ELSE /\ boundary_cache' =
                       DictSet(boundary_cache, row.INSEE_COM,
                               IF old = None THEN new
                               ELSE [new EXCEPT !.properties.POPULATION =
                                         @ + old.properties.POPULATION])
                /\ t_idx' = [t_idx EXCEPT ![g] = @ + 1]
                /\ UNCHANGED << dept_loaded, t_pc, t_gdf, t_exc, t_failed >>
    /\ UNCHANGED << callVars, stats, deriveVars, requestVars >>

\* lines 45-59: one turn of the loop
LoadRow(g) ==
    /\ t_pc[g] = "iter"
    /\ t_idx[g] <= Len(t_gdf[g])
    /\ LET row == t_gdf[g][t_idx[g]]
       IN  IF RowRaises(row)
           THEN HandleException(g, RowError)
           ELSE /\ boundary_cache' =
                       DictSet(boundary_cache, row.INSEE_COM, Feature(row))
                /\ t_idx' = [t_idx EXCEPT ![g] = @ + 1]
                /\ UNCHANGED << dept_loaded, t_pc, t_gdf, t_exc, t_failed >>
    /\ UNCHANGED << callVars, stats, deriveVars, requestVars >>

\* variant: a frame without rows is not marked, as if the load had failed
MarkLoaded_SkipsEmpty(g) ==
    /\ t_pc[g] = "iter"
    /\ t_idx[g] > Len(t_gdf[g])
    /\ dept_loaded' = IF Len(t_gdf[g]) = 0 THEN dept_loaded
                      ELSE dept_loaded \cup {dept_code[g]}
    /\ t_pc' = [t_pc EXCEPT ![g] = "done"]
    /\ t_gdf' = [t_gdf EXCEPT ![g] = << >>]
    /\ t_idx' = [t_idx EXCEPT ![g] = 0]
    /\ UNCHANGED << boundary_cache, t_exc, t_failed, callVars, stats,
                    deriveVars, requestVars >>

\* lines 61-62: the loop is over, the department is marked
MarkLoaded(g) ==
    /\ t_pc[g] = "iter"
    /\ t_idx[g] > Len(t_gdf[g])
    /\ dept_loaded' = dept_loaded \cup {dept_code[g]}
    /\ t_pc' = [t_pc EXCEPT ![g] = "done"]
    /\ t_gdf' = [t_gdf EXCEPT ![g] = << >>]
    /\ t_idx' = [t_idx EXCEPT ![g] = 0]
    /\ UNCHANGED << boundary_cache, t_exc, t_failed, callVars, stats,
                    deriveVars, requestVars >>

\* variant: reading the statistics empties the cache
CacheStatistics_Clears ==
    /\ loop = {}
    /\ stats' = GetCacheStats
    /\ boundary_cache' = << >>
    /\ UNCHANGED << dept_loaded, callVars, threadVars, deriveVars, requestVars >>

\* ----------------------------------------------------- get_cache_stats ----
\* routers/climate.py lines 87-98: the handler runs on the free event loop
CacheStatistics ==
    /\ loop = {}
    /\ stats' = GetCacheStats
    /\ UNCHANGED << shared, callVars, threadVars, deriveVars, requestVars >>

\* --------------------------------------------------------- geocoding ----
\* geocoding.py line 61: the confidence threshold 0.5, in hundredths
ScoreThreshold == 50

\* what API Adresse can answer: the call failing, no feature, or one feature
\* with a score (in hundredths) and possibly a citycode
HttpError == [type |-> "HTTPError"]
ApiAnswer(features) == [type |-> "Response", features |-> features]
ApiResponses ==
    {HttpError, ApiAnswer(<< >>)}
    \cup { ApiAnswer(<< [score |-> sc, citycode |-> Id92049] >>) : sc \in {49, 50} }
    \cup { ApiAnswer(<< [score |-> 90] >>) }

\* geocoding.py lines 40-80: the result, or the exception raised
GeocodeAddress(resp) ==
    IF resp.type = "HTTPError"
    THEN Exception("Exception")
    ELSE IF Len(resp.features) = 0
    THEN Exception("AddressNotFoundException")
    ELSE LET properties == resp.features[1]
         IN  IF properties.score < ScoreThreshold
             THEN Exception("AddressNotFoundException")
             ELSE [type |-> "GeocodingResult",
                   insee |-> RowGet(properties, "citycode", << >>),
                   score |-> properties.score]

\* ------------------------------------------------- climate projections ----
\* climate_generator.py line 83: def generate_climate_projections(lat, lon),
\* a plain function; routers/climate.py lines 50-54: the keywords it is
\* called with, and the await put on what it returns
ClimateParameters == {"lat", "lon"}
ClimateKeywords == {"lat", "lon", "temp_max_model"}
ClimateIsCoroutineFunction == FALSE

\* a call by keywords: a keyword the function does not take raises TypeError
CallByKeywords(parameters, keywords, value) ==
    IF keywords \subseteq parameters THEN value ELSE Exception("TypeError")

\* await on a value: only an awaitable can be awaited
Await(value, awaitable) ==
    IF value.type = "Exception" THEN value
    ELSE IF awaitable THEN value
    ELSE Exception("TypeError")

\* routers/climate.py lines 50-54
GenerateClimateProjections ==
    Await(CallByKeywords(ClimateParameters, ClimateKeywords,
                         [type |-> "Projections"]),
          ClimateIsCoroutineFunction)

\* ---------------------------------------------------------- GET /climate ----
\* variant: the AddressNotFoundException clause is missing
StatusFor_Always500(exc) == 500

\* routers/climate.py lines 73-84: the status an exception is answered with
StatusFor(exc) ==
    IF exc.class = "AddressNotFoundException" THEN 404 ELSE 500

HTTPException(exc) ==
    [type |-> "HTTPException", status_code |-> StatusFor(exc),
     detail |-> exc.class]

\* routers/climate.py lines 59-71
ClimateResponse(geocoding, climate, boundary) ==
    [type |-> "Response", status_code |-> 200,
     body |-> [geocoding |-> geocoding, climate |-> climate,
               commune_boundary |-> boundary]]

\* routers/climate.py lines 57-84: get_commune_boundary has returned to the
\* handler that awaited it
RouterAfterBoundary(g) ==
    IF req[g] = "boundary" \/ (req[g] = "none" /\ api'[g] # NotCalled)
    THEN IF pc'[g] = "done"
         THEN /\ req' = [req EXCEPT ![g] = "responded"]
              /\ response' = [response EXCEPT ![g] =
                     IF result'[g] = Raised
                     THEN HTTPException(Exception("Exception"))
                     ELSE ClimateResponse(GeocodeAddress(api'[g]),
                                          GenerateClimateProjections,
                                          result'[g])]
         ELSE /\ req' = [req EXCEPT ![g] = "boundary"]
              /\ UNCHANGED response
    ELSE UNCHANGED << req, response >>

\* routers/climate.py lines 45-57: a request whose geocoding has answered runs
\* up to its next await or to its answer
GetClimate(g, resp) ==
    /\ pc[g] = "idle"
    /\ req[g] = "none"
    /\ loop = {}
    /\ \A h \in Calls : h < g => (pc[h] # "idle" \/ req[h] # "none")
    /\ api' = [api EXCEPT ![g] = resp]
    /\ LET geocoding == GeocodeAddress(resp)
           climate == GenerateClimateProjections
       IN  IF geocoding.type = "Exception"
           THEN /\ steps' = [steps EXCEPT ![g] = << "geocode" >>]
                /\ req' = [req EXCEPT ![g] = "responded"]
                /\ response' = [response EXCEPT ![g] = HTTPException(geocoding)]
                /\ UNCHANGED << shared, callVars, threadVars, stats, deriveVars >>
           ELSE IF climate.type = "Exception"
           THEN /\ steps' = [steps EXCEPT ![g] = << "geocode", "climate" >>]
                /\ req' = [req EXCEPT ![g] = "responded"]
                /\ response' = [response EXCEPT ![g] = HTTPException(climate)]
                /\ UNCHANGED << shared, callVars, threadVars, stats, deriveVars >>
           ELSE /\ steps' = [steps EXCEPT ![g] =
                                << "geocode", "climate", "boundary" >>]
                /\ GetEnter(g, geocoding.insee)
                /\ RouterAfterBoundary(g)

\* the await of asyncio.to_thread never ends: carti_download does not return
\* (lines 34-42 pass no timeout, line 105 bounds nothing)
DownloadHangs(g) ==
    /\ t_pc[g] = "download"
    /\ t_pc' = [t_pc EXCEPT ![g] = "hung"]
    /\ UNCHANGED << shared, callVars, t_gdf, t_idx, t_exc, t_failed, stats,
                    deriveVars, requestVars >>

\* ------------------------------------------------------ specification ----
Next ==
    \/ \E g \in Calls, id \in CallIds :
           req[g] = "none" /\ GetEnter(g, id) /\ UNCHANGED requestVars
    \/ \E g \in Calls : GetDispatch(g)
    \/ \E g \in Calls : GetReturn(g) /\ UNCHANGED << api, steps >>
                                     /\ RouterAfterBoundary(g)
    \/ \E g \in Calls, resp \in ApiResponses : GetClimate(g, resp)
    \/ \E g \in Calls : Download(g)
    \/ \E g \in Calls : LoadRow(g)
    \/ \E g \in Calls : MarkLoaded(g)
    \/ CacheStatistics

Spec == Init /\ [][Next]_vars

\* The same with a download that may never return, under the scheduling the
\* runtime gives: the event loop runs every coroutine that can run and every
\* worker thread keeps going.
NextLive == Next \/ \E g \in Calls : DownloadHangs(g)

Fairness ==
    \A g \in Calls :
        /\ WF_vars(GetDispatch(g))
        /\ WF_vars(GetReturn(g) /\ UNCHANGED << api, steps >>
                               /\ RouterAfterBoundary(g))
        /\ WF_vars(Download(g))
        /\ WF_vars(LoadRow(g))
        /\ WF_vars(MarkLoaded(g))

SpecLive == Init /\ [][NextLive]_vars /\ Fairness

\* The derivation on its own, over every identifier of up to MaxIdLen
\* characters of the alphabet.
Chars == {"9", "7", "2", "A", "B", "0", "4"}
Identifiers == UNION { [1..n -> Chars] : n \in 0..MaxIdLen }

InitDerive ==
    /\ boundary_cache = << >>
    /\ dept_loaded = {}
    /\ loop = {}
    /\ pc = [g \in Calls |-> "idle"]
    /\ missed = [g \in Calls |-> FALSE]
    /\ insee = [g \in Calls |-> << >>]
    /\ dept_code = [g \in Calls |-> << >>]
    /\ result = [g \in Calls |-> NotCalled]
    /\ t_pc = [g \in Calls |-> "none"]
    /\ t_gdf = [g \in Calls |-> << >>]
    /\ t_idx = [g \in Calls |-> 0]
    /\ t_exc = [g \in Calls |-> None]
    /\ t_failed = [g \in Calls |-> FALSE]
    /\ predecessors = [g \in Calls |-> {}]
    /\ stats = NotCalled
    /\ req = [g \in Calls |-> "none"]
    /\ api = [g \in Calls |-> NotCalled]
    /\ steps = [g \in Calls |-> << >>]
    /\ response = [g \in Calls |-> NotCalled]
    /\ arg \in Identifiers
    /\ ret = << >>

Derive ==
    /\ ret = << >>
    /\ ret' = << DeriveDeptCode(arg) >>
    /\ UNCHANGED << shared, callVars, threadVars, stats, requestVars, arg >>

NextDerive == Derive

SpecDerive == InitDerive /\ [][NextDerive]_vars

\* ------------------------------------------- load_census_year_climate ----
\* data_loaders.py lines 25-91, on its own: the checks made before the
\* aggregation starts.
MaxYears == 2

ClimateUrl(name) == [type |-> "Url", of |-> name]

\* lines 19-22: only tasAdjust has a default URL
CLIMATE_URLS == [variable \in {"tasAdjust"} |-> ClimateUrl("tasAdjust")]

ValueError == Exception("ValueError")

\* variant: the two ends of the dataset's range are left out
ValidYears_Strict(census_years, min_year, max_year) ==
    SelectSeq(census_years, LAMBDA y : min_year < y /\ y < max_year)

\* line 77: [y for y in census_years if min_year <= y <= max_year]
ValidYears(census_years, min_year, max_year) ==
    SelectSeq(census_years, LAMBDA y : min_year <= y /\ y <= max_year)

\* lines 56-91: ValueError, or the URL and the years the aggregation is run
\* with, and the years it warns about
LoadCensusYearClimate(call) ==
    IF call.url = None /\ call.variable \notin DOMAIN CLIMATE_URLS
    THEN ValueError
    ELSE LET url == IF call.url = None THEN CLIMATE_URLS[call.variable]
                    ELSE call.url
             valid_years == ValidYears(call.census_years, call.min_year,
                                       call.max_year)
             years(seq) == { seq[k] : k \in DOMAIN seq }
         IN  IF Len(valid_years) = 0
             THEN ValueError
             ELSE [type |-> "Processing",
                   url |-> url,
                   valid_years |-> valid_years,
                   missing |-> years(call.census_years) \ years(valid_years)]

\* the calls: a variable with or without default URL, a URL given or not,
\* up to MaxYears requested years, and the year range of the dataset opened
\* (1850-2014 is the one of the default file)
CensusVariables == {"tasAdjust", "prAdjust"}
CensusYearValues == {1849, 1850, 1968, 2014, 2015}
DatasetRanges == { << 1850, 2014 >>, << 1968, 1968 >> }
CensusCalls ==
    { [variable |-> v, url |-> u, census_years |-> ys,
       min_year |-> rg[1], max_year |-> rg[2]] :
          v \in CensusVariables,
          u \in {None, ClimateUrl("given")},
          ys \in UNION { [1..n -> CensusYearValues] : n \in 0..MaxYears },
          rg \in DatasetRanges }

InitCensus ==
    /\ boundary_cache = << >>
    /\ dept_loaded = {}
    /\ loop = {}
    /\ pc = [g \in Calls |-> "idle"]
    /\ missed = [g \in Calls |-> FALSE]
    /\ insee = [g \in Calls |-> << >>]
    /\ dept_code = [g \in Calls |-> << >>]
    /\ result = [g \in Calls |-> NotCalled]
    /\ t_pc = [g \in Calls |-> "none"]
    /\ t_gdf = [g \in Calls |-> << >>]
    /\ t_idx = [g \in Calls |-> 0]
    /\ t_exc = [g \in Calls |-> None]
    /\ t_failed = [g \in Calls |-> FALSE]
    /\ predecessors = [g \in Calls |-> {}]
    /\ stats = NotCalled
    /\ req = [g \in Calls |-> "none"]
    /\ api = [g \in Calls |-> NotCalled]
    /\ steps = [g \in Calls |-> << >>]
    /\ response = [g \in Calls |-> NotCalled]
    /\ arg \in CensusCalls
    /\ ret = << >>

Census ==
    /\ ret = << >>
    /\ ret' = << LoadCensusYearClimate(arg) >>
    /\ UNCHANGED << shared, callVars, threadVars, stats, requestVars, arg >>

NextCensus == Census

SpecCensus == InitCensus /\ [][NextCensus]_vars

\* ---------------------------------------------------------- properties ----
Done(g) == pc[g] = "done"
\* the call reached line 105: a load of its department was started
Dispatched(g) == t_pc[g] # "none"
\* its load ran to line 61
LoadSucceeded(g) == t_pc[g] = "done" /\ ~t_failed[g]
Departments == { DeriveDeptCode(id) : id \in CallIds }
Rows(dept) == { CartiDownload(dept)[k] : k \in 1..Len(CartiDownload(dept)) }
\* what a lookup of id finds once its department is fully cached
Expected(id) ==
    LET hit == { row \in Rows(DeriveDeptCode(id)) : row.INSEE_COM = id }
    IN  IF hit = {} THEN None ELSE Feature(CHOOSE row \in hit : TRUE)
\* every call began after the calls before it had returned
Sequential == \A g, h \in Calls : (g < h /\ pc[h] # "idle") => g \in predecessors[h]

\* C1: for every department, whatever the interleaving of the calls, at most
\* one load of it is run when no load of it fails.
C1_AtMostOneFetch ==
    \A dept \in Departments :
        (\A g \in Calls : dept_code[g] = dept => ~t_failed[g])
        => Cardinality({ g \in Calls : LoadSucceeded(g) /\ dept_code[g] = dept }) <= 1

\* C2: a department in _dept_loaded has every one of its communes in
\* _boundary_cache, with the feature built from its row.
C2_LoadedImpliesCached ==
    \A dept \in dept_loaded :
        \A row \in Rows(dept) :
            /\ row.INSEE_COM \in DOMAIN boundary_cache
            /\ boundary_cache[row.INSEE_COM] = Feature(row)

C2_Witness ==
    /\ Dept92 \in dept_loaded
    /\ \E g \in Calls : t_pc[g] = "iter" /\ dept_code[g] = Dept92

\* C3: no step removes or changes an entry of _boundary_cache or removes a
\* department from _dept_loaded.
C3_AppendOnly ==
    [][ /\ \A id \in DOMAIN boundary_cache :
               /\ id \in DOMAIN boundary_cache'
               /\ boundary_cache'[id] = boundary_cache[id]
        /\ dept_loaded \subseteq dept_loaded' ]_vars

C3_Witness ==
    \E g, h \in Calls :
        /\ g # h
        /\ dept_code[g] = Dept92 /\ dept_code[h] = Dept92
        /\ LoadSucceeded(g)
        /\ t_failed[h]
        /\ stats # NotCalled
        /\ boundary_cache[Id92049] = Expected(Id92049)

\* C4: a call that has returned has returned None or a feature, never an
\* exception, whatever its load met.
C4_GetNeverRaises ==
    \A g \in Calls :
        Done(g) =>
            /\ result[g] # Raised
            /\ \/ result[g] = None
               \/ \E dept \in Departments : \E row \in Rows(dept) :
                      result[g] = Feature(row)

C4_Witness ==
    \E g, h \in Calls :
        /\ Done(g) /\ t_failed[g] /\ result[g] = None
        /\ Done(h) /\ LoadSucceeded(h) /\ result[h] = Expected(Id92049)
        /\ insee[h] = Id92049

\* C5 as stated: a call whose load failed returns None and its department is
\* not in _dept_loaded.
C5_FailedLoadGivesAbsent ==
    \A g \in Calls :
        (Done(g) /\ t_failed[g]) =>
            /\ result[g] = None
            /\ dept_code[g] \notin dept_loaded

\* C5 amended: a call whose load failed does not raise and returns what the
\* cache holds for its code: None unless a record for it was inserted, by the
\* failing load before it failed or by another load; and the department is in
\* _dept_loaded only if another load of it succeeded.
C5_Degrade ==
    \A g \in Calls :
        t_failed[g] =>
            /\ dept_code[g] \in dept_loaded =>
                   \E h \in Calls \ {g} :
                       LoadSucceeded(h) /\ dept_code[h] = dept_code[g]
            /\ Done(g) =>
                   /\ result[g] # Raised
                   /\ insee[g] \notin DOMAIN boundary_cache => result[g] = None
                   /\ result[g] # None =>
                          /\ insee[g] \in DOMAIN boundary_cache
                          /\ result[g] = boundary_cache[insee[g]]

C5_Witness ==
    \E g \in Calls :
        /\ Done(g)
        /\ t_failed[g]
        /\ result[g] = None
        /\ dept_code[g] \notin dept_loaded

\* C6: a call that begins after a call whose load of the department failed,
\* and misses the cache, starts a load of that department again as long as no
\* load of it has succeeded: the failure leaves nothing behind that stops it.
C6_RetryAfterFailure ==
    \A g1, g2 \in Calls :
        ( /\ g1 \in predecessors[g2]
          /\ t_failed[g1]
          /\ missed[g2]
          /\ pc[g2] # "miss"
          /\ dept_code[g2] = dept_code[g1]
          /\ ~\E h \in Calls : LoadSucceeded(h) /\ dept_code[h] = dept_code[g1] )
        => Dispatched(g2)

C6_Witness ==
    \E g1, g2 \in Calls :
        /\ g1 \in predecessors[g2]
        /\ t_failed[g1]
        /\ dept_code[g2] = dept_code[g1]
        /\ LoadSucceeded(g2)
        /\ Done(g2)
        /\ result[g2] = Expected(Id92050)
        /\ insee[g2] = Id92050

C8_RegionDerivation ==
    ret # << >> =>
        /\ Len(arg) = 5 =>
               ret[1] = IF arg[1] = "9" /\ arg[2] = "7"
                        THEN << arg[1], arg[2], arg[3] >>
                        ELSE << arg[1], arg[2] >>
        /\ arg = Id92049 => ret[1] = Dept92
        /\ arg = Id97400 => ret[1] = Dept974

C8_Witness ==
    /\ arg = Id97400
    /\ ret = << Dept974 >>

\* C9: a stats call returns the sizes of the two collections as they are; when
\* exactly two departments are loaded and no load of another department was
\* started, that is the sum of their row counts and 2.
C9_StatsConsistency ==
    [][ stats' # stats =>
          /\ stats'.cached_communes = Cardinality(DOMAIN boundary_cache)
          /\ stats'.cached_departments = Cardinality(dept_loaded)
          /\ \A r1, r2 \in dept_loaded :
                 ( /\ r1 # r2
                   /\ dept_loaded = {r1, r2}
                   /\ \A g \in Calls : Dispatched(g) => dept_code[g] \in dept_loaded )
                 => /\ stats'.cached_communes =
                           Len(CartiDownload(r1)) + Len(CartiDownload(r2))
                    /\ stats'.cached_departments = 2 ]_vars

C9_Witness ==
    /\ dept_loaded = {Dept92, Dept974}
    /\ stats = [cached_communes |-> 3, cached_departments |-> 2]

\* C10: once a load of a department has succeeded, the call that ran it and
\* every call that begins afterwards for a code of that department return the
\* commune's feature when the dataset has the commune and None when it has
\* not, the later calls without starting a load; in a run of calls one after
\* the other with no failed load, the department is loaded exactly once.
C10_AfterSuccessfulLoad ==
    \A g1 \in Calls :
        LoadSucceeded(g1) =>
            /\ Done(g1) => result[g1] = Expected(insee[g1])
            /\ \A g2 \in Calls :
                   ( /\ g1 \in predecessors[g2]
                     /\ DeriveDeptCode(insee[g2]) = dept_code[g1] )
                   => /\ ~Dispatched(g2)
                      /\ Done(g2) => result[g2] = Expected(insee[g2])
            /\ ( /\ Sequential
                 /\ \A h \in Calls : dept_code[h] = dept_code[g1] => ~t_failed[h] )
               => Cardinality({ h \in Calls : /\ Dispatched(h)
                                              /\ dept_code[h] = dept_code[g1] }) = 1

C10_Witness ==
    \E g1, g2 \in Calls :
        /\ g1 \in predecessors[g2]
        /\ LoadSucceeded(g1)
        /\ insee[g1] = Id92049 /\ result[g1] = Expected(Id92049)
        /\ insee[g2] = Id92999 /\ Done(g2) /\ result[g2] = None
        /\ ~Dispatched(g2)

\* the load of the call returned a frame without rows and ran to its end
EmptyLoad(g) ==
    /\ LoadSucceeded(g)
    /\ Len(CartiDownload(dept_code[g])) = 0

\* C11 as stated: a load that returned no row leaves its department out of
\* _dept_loaded, as a load that raised does.
C11_EmptyLikeException ==
    \A g \in Calls : EmptyLoad(g) => dept_code[g] \notin dept_loaded

\* C11 amended: a load that returned no row is a successful load: its
\* department is in _dept_loaded, the call returns None, and a call that
\* begins afterwards for a code of that department returns None without
\* starting a load.
C11_EmptyIsSuccess ==
    \A g \in Calls :
        EmptyLoad(g) =>
            /\ dept_code[g] \in dept_loaded
            /\ Done(g) => result[g] = None
            /\ \A g2 \in Calls :
                   ( /\ g \in predecessors[g2]
                     /\ DeriveDeptCode(insee[g2]) = dept_code[g] )
                   => /\ ~Dispatched(g2)
                      /\ Done(g2) => result[g2] = None

C11_Witness ==
    \E g, g2 \in Calls :
        /\ EmptyLoad(g)
        /\ insee[g] = IdEmpty
        /\ g \in predecessors[g2]
        /\ insee[g2] = IdEmpty
        /\ Done(g2)
        /\ missed[g2]
        /\ ~Dispatched(g2)

\* the state of a department: LOADED once marked, LOADING while a load of it
\* is running, UNSEEN otherwise
RegionState(dept) ==
    IF dept \in dept_loaded THEN "LOADED"
    ELSE IF \E g \in Calls : t_pc[g] \in {"download", "iter"} /\ dept_code[g] = dept
    THEN "LOADING"
    ELSE "UNSEEN"

\* C12: a department only goes UNSEEN -> LOADING, LOADING -> LOADED and
\* LOADING -> UNSEEN, never leaves LOADED, and no load of it takes a step
\* (starts its download, caches a row, ends) once it is LOADED.
C12_RegionStateMachine ==
    [][ \A dept \in Departments :
          /\ RegionState(dept)' # RegionState(dept) =>
                 << RegionState(dept), RegionState(dept)' >> \in
                     { << "UNSEEN", "LOADING" >>, << "LOADING", "LOADED" >>,
                       << "LOADING", "UNSEEN" >> }
          /\ RegionState(dept) = "LOADED" =>
                 \A g \in Calls :
                     dept_code[g] = dept /\ Dispatched(g) => t_pc'[g] = t_pc[g]
      ]_vars

\* C13: a call that is waiting for its load returns in the end.
C13_GetReturns ==
    \A g \in Calls : (pc[g] = "await") ~> (pc[g] = "done")

\* C14: a call whose code is in _boundary_cache when it begins returns the
\* cached feature in the same step, starts no load and writes nothing,
\* whether or not the department is in _dept_loaded and whatever loads are
\* running.
C14_CacheHit ==
    [][ \A g \in Calls :
          ( /\ pc[g] = "idle"
            /\ pc'[g] # "idle"
            /\ insee'[g] \in DOMAIN boundary_cache )
          => /\ pc'[g] = "done"
             /\ result'[g] = boundary_cache[insee'[g]]
             /\ loop' = {}
             /\ UNCHANGED << shared, threadVars, dept_code >>
      ]_vars

C14_Witness ==
    \E g, h \in Calls :
        /\ Done(g)
        /\ ~missed[g]
        /\ ~Dispatched(g)
        /\ result[g] = Expected(insee[g])
        /\ result[g] # None
        /\ DeriveDeptCode(insee[g]) \notin dept_loaded
        /\ t_pc[h] = "iter"
        /\ dept_code[h] = DeriveDeptCode(insee[g])

\* C15: a step that produces statistics leaves _boundary_cache, _dept_loaded,
\* every call and every load as they were: it writes nothing and starts no
\* load, also while loads are running.
C15_StatsReadOnly ==
    [][ stats' # stats =>
            UNCHANGED << shared, callVars, threadVars, requestVars >> ]_vars

C15_Witness ==
    /\ stats = GetCacheStats
    /\ stats.cached_communes > 0
    /\ \E g \in Calls : t_pc[g] = "iter" /\ dept_code[g] \notin dept_loaded

\* identifiers of at most two characters
ShortIdentifiers == UNION { [1..n -> Chars] : n \in 0..2 }
\* shorter than the prefix the derivation takes
TooShort(code) == Len(code) < (IF StartsWith(code, <<"9", "7">>) THEN 3 ELSE 2)

\* the derivation of every too short code gives the code itself
ShortDerivationClamps ==
    \A code \in ShortIdentifiers : TooShort(code) => DeriveDeptCode(code) = code

\* C16: for a code shorter than the prefix the derivation takes, the derived
\* department code is the code itself (nothing is raised), a load for it
\* caches nothing under that code, and the call returns None.
C16_ShortIdentifier ==
    /\ ShortDerivationClamps
    /\ \A g \in Calls :
           (pc[g] # "idle" /\ TooShort(insee[g])) =>
               /\ pc[g] \notin {"miss"} => dept_code[g] = insee[g]
               /\ insee[g] \notin DOMAIN boundary_cache
               /\ Done(g) => result[g] = None

C16_Witness ==
    \E g \in Calls :
        /\ insee[g] = IdEmpty
        /\ Done(g)
        /\ Dispatched(g)
        /\ dept_code[g] = IdEmpty
        /\ result[g] = None

\* the call waits for a load that is still running
Suspended(g) == pc[g] = "await" /\ t_pc[g] \in {"download", "iter"}

\* C17: a call that waits for its load does not hold the event loop: another
\* call that has not begun can begin whenever no call is running on the loop,
\* and a call that is on the loop can take its next step.
C17_NonBlocking ==
    \A g \in Calls :
        Suspended(g) =>
            /\ loop # {g}
            /\ \A h \in Calls \ {g} :
                   /\ ( /\ pc[h] = "idle"
                        /\ req[h] = "none"
                        /\ loop = {}
                        /\ \A k \in Calls : k < h => (pc[k] # "idle" \/ req[k] # "none") )
                      => \A id \in CallIds : ENABLED GetEnter(h, id)
                   /\ pc[h] = "miss" => ENABLED GetDispatch(h)
                   /\ pc[h] = "final" => ENABLED GetReturn(h)

\* a call began and returned while another was waiting for the load of one
\* department: it loaded a different department and found its commune
C17_Witness ==
    \E g, h \in Calls :
        /\ Suspended(g)
        /\ g < h
        /\ Done(h)
        /\ LoadSucceeded(h)
        /\ dept_code[h] # dept_code[g]
        /\ result[h] = Expected(insee[h])
        /\ result[h] # None

\* the two calls each ran a load of the same department to its end, and
\* neither began after the other had returned
DuplicateFetch(g, h) ==
    /\ g # h
    /\ LoadSucceeded(g)
    /\ LoadSucceeded(h)
    /\ dept_code[g] = dept_code[h]
    /\ g \notin predecessors[h]
    /\ h \notin predecessors[g]

\* C18: whatever the interleaving of two loads of one department, every
\* cached entry is the feature a single load gives for its code, and once
\* both loads have ended the department is in _dept_loaded and holds exactly
\* the communes of a single load.
C18_DuplicateFetchHarmless ==
    /\ \A id \in DOMAIN boundary_cache : boundary_cache[id] = Expected(id)
    /\ \A g, h \in Calls :
           DuplicateFetch(g, h) =>
               /\ dept_code[g] \in dept_loaded
               /\ { id \in DOMAIN boundary_cache : DeriveDeptCode(id) = dept_code[g] }
                      = { row.INSEE_COM : row \in Rows(dept_code[g]) }

C18_Witness ==
    \E g, h \in Calls :
        /\ DuplicateFetch(g, h)
        /\ dept_code[g] = Dept92
        /\ Done(g)
        /\ Done(h)

\* API Adresse gave an address with a sufficient score
Geocoded(g) == api[g] # NotCalled /\ GeocodeAddress(api[g]).type = "GeocodingResult"

AddressNotFound(g) ==
    /\ api[g].type = "Response"
    /\ \/ Len(api[g].features) = 0
       \/ api[g].features[1].score < ScoreThreshold

\* C20: every request is answered, with the response body or an
\* HTTPException; the exception carries 404 exactly when API Adresse found
\* no address or none with a sufficient score, and 500 for every other
\* exception of the three steps.
C20_StatusCodes ==
    \A g \in Calls :
        req[g] = "responded" =>
            /\ response[g].type \in {"Response", "HTTPException"}
            /\ AddressNotFound(g) <=>
                   (response[g].type = "HTTPException" /\ response[g].status_code = 404)
            /\ (response[g].type = "HTTPException" /\ ~AddressNotFound(g)) =>
                   response[g].status_code = 500
            /\ response[g].type = "Response" => response[g].status_code = 200

C20_Witness ==
    \E g, h \in Calls :
        /\ req[g] = "responded"
        /\ api[g].type = "Response" /\ Len(api[g].features) = 1
        /\ response[g].status_code = 404
        /\ req[h] = "responded"
        /\ api[h].type = "Response" /\ Len(api[h].features) = 1
        /\ response[h].status_code = 500

\* C21: geocode_address raises AddressNotFoundException exactly when API
\* Adresse gives no feature or a best score under the threshold (the
\* threshold itself is accepted), and raises httpx.HTTPError when the call
\* to the API fails.
C21_GeocodeRaises ==
    \A g \in Calls :
        api[g] # NotCalled =>
            /\ AddressNotFound(g) <=>
                   GeocodeAddress(api[g]) = Exception("AddressNotFoundException")
            /\ api[g] = HttpError =>
                   GeocodeAddress(api[g]) = Exception("HTTPError")

\* C22: a request whose address geocodes runs geocode, climate, boundary in
\* that order and is answered with a body of the three keys geocoding,
\* climate and commune_boundary.
C22_StepOrder ==
    \A g \in Calls :
        (req[g] = "responded" /\ Geocoded(g)) =>
            /\ steps[g] = << "geocode", "climate", "boundary" >>
            /\ response[g].type = "Response"
            /\ DOMAIN response[g].body = {"geocoding", "climate", "commune_boundary"}

\* the year lies in the range of the dataset the call opens
InRange(y) == arg.min_year <= y /\ y <= arg.max_year
\* the positions of the requested years that lie in the range
InRangeAt == { k \in DOMAIN arg.census_years : InRange(arg.census_years[k]) }
\* no URL is given and the variable has none by default
NoUrl == arg.url = None /\ arg.variable # "tasAdjust"

\* C23: load_census_year_climate gives ValueError when no URL is given and
\* the variable has no default URL, and when no requested year lies in the
\* range of the dataset; otherwise it goes on with exactly the requested
\* years that lie in the range, in the order given, and skips the others.
C23_CensusYears ==
    ret # << >> =>
        LET out == ret[1]
        IN  /\ NoUrl => out = ValueError
            /\ InRangeAt = {} => out = ValueError
            /\ (~NoUrl /\ InRangeAt # {}) =>
                   /\ out.type = "Processing"
                   /\ Len(out.valid_years) = Cardinality(InRangeAt)
                   /\ \A k \in InRangeAt :
                          out.valid_years[Cardinality({ i \in InRangeAt : i <= k })]
                              = arg.census_years[k]
                   /\ out.missing =
                          { arg.census_years[k] : k \in DOMAIN arg.census_years \ InRangeAt }

C23_Witness ==
    /\ ret # << >>
    /\ arg.census_years = << 2015, 1850 >>
    /\ arg.min_year = 1850
    /\ arg.url = None
    /\ ret[1].type = "Processing"
    /\ ret[1].valid_years = << 1850 >>
    /\ ret[1].missing = {2015}

\* C24: a step that changes _boundary_cache or _dept_loaded is a step of a
\* running load (a row cached, the department marked) and moves no call; a
\* step that moves a call or produces statistics changes neither.
C24_WrittenOnlyByLoad ==
    [][ /\ shared' # shared =>
               /\ \E g \in Calls :
                      /\ t_pc[g] = "iter"
                      /\ t_idx'[g] # t_idx[g] \/ t_pc'[g] # t_pc[g]
               /\ UNCHANGED << callVars, stats >>
        /\ ((\E g \in Calls : pc'[g] # pc[g]) \/ stats' # stats) =>
               UNCHANGED shared
      ]_vars

\* a call found its department loaded and returned, statistics were read,
\* and the cache holds what the load left
C24_Witness ==
    \E g, h \in Calls :
        /\ LoadSucceeded(g)
        /\ dept_code[g] = Dept92
        /\ Done(h)
        /\ missed[h]
        /\ ~Dispatched(h)
        /\ stats = GetCacheStats
        /\ DOMAIN boundary_cache = {Id92049, Id92050}
        /\ dept_loaded = {Dept92}

\* the codes of the rows of a frame
FrameCodes(gdf) == { gdf[k].INSEE_COM : k \in DOMAIN gdf }

\* C25: a load that does not fail caches each row of its frame under the
\* row's own code and touches no other entry; when its rows are done it adds
\* its own department, and nothing else, to _dept_loaded, every row of the
\* frame being cached by then and the code asked for being cached only if a
\* row has it.
C25_SuccessfulLoad ==
    [][ \A g \in Calls :
          ( /\ t_pc[g] = "iter"
            /\ t_idx'[g] # t_idx[g] \/ t_pc'[g] # t_pc[g]
            /\ ~t_failed'[g] )
          => IF t_pc'[g] = "iter"
             THEN LET code == t_gdf[g][t_idx[g]].INSEE_COM
                  IN  /\ DOMAIN boundary_cache' = DOMAIN boundary_cache \cup {code}
                      /\ boundary_cache'[code].properties.INSEE_COM = code
                      /\ boundary_cache'[code].geometry = t_gdf[g][t_idx[g]].geometry
                      /\ \A id \in DOMAIN boundary_cache \ {code} :
                             boundary_cache'[id] = boundary_cache[id]
                      /\ dept_loaded' = dept_loaded
             ELSE /\ dept_loaded' = dept_loaded \cup {dept_code[g]}
                  /\ boundary_cache' = boundary_cache
                  /\ FrameCodes(t_gdf[g]) \subseteq DOMAIN boundary_cache
                  /\ insee[g] \notin FrameCodes(t_gdf[g]) =>
                         insee[g] \notin DOMAIN boundary_cache
      ]_vars

C25_Witness ==
    \E g, h \in Calls :
        /\ LoadSucceeded(g)
        /\ insee[g] = Id92999
        /\ LoadSucceeded(h)
        /\ insee[h] = Id97400
        /\ DOMAIN boundary_cache = {Id92049, Id92050, Id97400}
        /\ dept_loaded = {Dept92, Dept974}

\* lines 92-100 with the Corsica branch taken out: "97" gives the first
\* three characters, anything else the first two
TwoRuleDerivation(code) ==
    IF StartsWith(code, <<"9", "7">>) THEN Slice(code, 3) ELSE Slice(code, 2)

\* C26: for every identifier the derivation of the source, with its Corsica
\* branch, gives what the two-rule form gives.
C26_CorsicaBranchDead ==
    ret # << >> => ret[1] = TwoRuleDerivation(arg)

C26_Witness ==
    /\ arg = << "2", "A", "0", "0", "4" >>
    /\ ret = << << "2", "A" >> >>

\* C27: a call starts at most one load and never starts it again: a load that
\* has left its download never goes back to it, only calls that missed the
\* cache have a load, so the loads are no more than those calls, and a call
\* whose load has ended, failed or not, goes straight to its return.
C27_NoRetry ==
    [][ /\ \A g \in Calls :
               /\ t_pc[g] \in {"iter", "done"} => t_pc'[g] # "download"
               /\ t_pc'[g] # "none" => missed'[g]
               /\ (pc[g] = "await" /\ t_pc[g] = "done" /\ pc'[g] # pc[g]) =>
                      /\ pc'[g] = "done"
                      /\ t_pc'[g] = "done"
                      /\ t_exc[g] = None => result'[g] = DictGet(boundary_cache, insee[g])
        /\ Cardinality({ g \in Calls : t_pc'[g] # "none" })
               <= Cardinality({ g \in Calls : missed'[g] })
      ]_vars

C27_Witness ==
    \E g, h \in Calls :
        /\ Done(g)
        /\ t_failed[g]
        /\ result[g] = None
        /\ dept_code[g] \notin dept_loaded
        /\ Done(h)
        /\ ~missed[h]
        /\ Cardinality({ k \in Calls : Dispatched(k) }) = 1

\* the cache holds communes of the department and the department is not in
\* _dept_loaded
PartlyCached(dept) ==
    /\ dept \notin dept_loaded
    /\ \E id \in DOMAIN boundary_cache : DeriveDeptCode(id) = dept

\* C28: the step on which a load fails removes nothing from _boundary_cache
\* and adds nothing to _dept_loaded; while communes of a department are
\* cached without the department being loaded, a call for one of them
\* returns it at once without a load, and a call for a code of the
\* department that is not cached starts a load of the department.
C28_NoRollback ==
    [][ \A g \in Calls :
          /\ (t_failed'[g] /\ ~t_failed[g]) =>
                 /\ boundary_cache' = boundary_cache
                 /\ dept_loaded' = dept_loaded
          /\ ( /\ pc[g] = "idle"
               /\ pc'[g] # "idle"
               /\ PartlyCached(DeriveDeptCode(insee'[g])) ) =>
                 IF insee'[g] \in DOMAIN boundary_cache
                 THEN /\ pc'[g] = "done"
                      /\ result'[g] = boundary_cache[insee'[g]]
                      /\ t_pc'[g] = "none"
                 ELSE pc'[g] = "miss"
          /\ ( /\ pc[g] = "miss"
               /\ pc'[g] # "miss"
               /\ PartlyCached(DeriveDeptCode(insee[g])) ) =>
                 /\ pc'[g] = "await"
                 /\ t_pc'[g] = "download"
      ]_vars

\* a load failed on its second row, its first row stays cached, and the
\* next call for the second commune loads the department again
C28_Witness ==
    \E g, h \in Calls :
        /\ t_failed[g]
        /\ Done(g)
        /\ dept_code[g] = Dept92
        /\ g \in predecessors[h]
        /\ insee[h] = Id92050
        /\ missed[h]
        /\ t_pc[h] = "download"
        /\ PartlyCached(Dept92)
        /\ DOMAIN boundary_cache = {Id92049}

\* a load of the department is running
InFlight(dept) ==
    \E g \in Calls : t_pc[g] \in {"download", "iter"} /\ dept_code[g] = dept

\* C29: while a load of a department is running and the department is not
\* yet in _dept_loaded, a call that begins sees the cache as it is at that
\* moment (a hit only for a commune already cached), statistics give the
\* sizes at that moment, and a call that missed starts its own load of the
\* department.
C29_NotAtomic ==
    [][ /\ \A h \in Calls :
               ( /\ pc[h] \in {"idle", "miss"}
                 /\ pc'[h] # pc[h]
                 /\ DeriveDeptCode(insee'[h]) \notin dept_loaded
                 /\ InFlight(DeriveDeptCode(insee'[h])) ) =>
                   IF pc[h] = "idle"
                   THEN pc'[h] = IF insee'[h] \in DOMAIN boundary_cache
                                 THEN "done" ELSE "miss"
                   ELSE /\ t_pc'[h] = "download"
                        /\ pc'[h] = "await"
        /\ stats' # stats =>
               /\ stats'.cached_communes = Cardinality(DOMAIN boundary_cache)
               /\ stats'.cached_departments = Cardinality(dept_loaded)
      ]_vars

\* one of the two communes of the department is cached, the department is
\* not marked, statistics have shown it, and a second load of the department
\* has been started for the other commune
C29_Witness ==
    \E g, h \in Calls :
        /\ g # h
        /\ t_pc[g] = "iter"
        /\ dept_code[g] = Dept92
        /\ DOMAIN boundary_cache = {Id92049}
        /\ dept_loaded = {}
        /\ stats = [cached_communes |-> 1, cached_departments |-> 0]
        /\ g \notin predecessors[h]
        /\ insee[h] = Id92050
        /\ dept_code[h] = Dept92
        /\ t_pc[h] = "download"

====
